---- MODULE Spec2Model ----
(***************************************************************************)
(* A model of the fabric dependency graph (package fabric, graph.go) and   *)
(* of the channel signaling between its nodes.                             *)
(*                                                                         *)
(* A DGNode is a comparable value used as a key of Graph.Top.  Its         *)
(* signaling maps are Go maps (reference values) reached through           *)
(* ListSignalers / ListSignals / UpdateSignaling; they are kept here in    *)
(* Signalers and Signals, indexed by the node value (a node without an     *)
(* entry has empty maps).  Every make(chan) yields a fresh channel,        *)
(* numbered by nextChan.                                                   *)
(***************************************************************************)
EXTENDS Integers, Sequences, FiniteSets, TLC

(* ------------------------------ bounds -------------------------------- *)

MaxId == 2
MaxNodes == 2
MaxChan == 2

(* ------------------------------ nodes --------------------------------- *)

Ids == 1..MaxId

\* A node value: its ID(), whether it implements UI, and IsVirtual().
Nodes == [id : Ids, ui : BOOLEAN, virtual : BOOLEAN]

\* Graph.Type: the NodeType of a node, from its interface and IsVirtual().
Type(n) ==
    IF n.ui
    THEN IF n.virtual THEN "VUINode" ELSE "UINode"
    ELSE IF n.virtual THEN "VirtualTemporalNode" ELSE "TemporalNode"

\* DGNode.GetType: the node reports the type the graph computed for it.
GetType(n) == Type(n)

(* ------------------------------ Go maps ------------------------------- *)

EmptyMap == [x \in {} |-> 0]

MapPut(m, k, v) == [x \in (DOMAIN m) \cup {k} |-> IF x = k THEN v ELSE m[x]]

MapDelete(m, k) == [x \in (DOMAIN m) \ {k} |-> m[x]]

\* The orders in which a range over a Go map may visit the keys in S.
RangeOrders(S) ==
    {s \in [1..Cardinality(S) -> S] : \A a \in S : \E i \in DOMAIN s : s[i] = a}

(* ------------------------------ state --------------------------------- *)

VARIABLES
    Top,        \* Graph.Top: node |-> list of its dependencies
    Signalers,  \* node |-> outbound map: dependent id |-> channel
    Signals,    \* node |-> inbound map: dependency id |-> channel
    nextChan,   \* number of channels made so far
    DS,         \* Graph.DS: the host structure, its nodes and its edges
    result,     \* what the last call returned
    lastOp,     \* the last call and its arguments
    bcast,      \* node |-> its Signal call in progress
    offered,    \* channel |-> the values its sender has begun to send, in order
    delivered,  \* channel |-> the values its reader has received, in order
    reads,      \* the nodes whose thread reads its inbound channels
    sigCount    \* number of Signal calls made

gvars == <<Top, Signalers, Signals, nextChan, DS>>

svars == <<bcast, offered, delivered, reads, sigCount>>

vars == <<Top, Signalers, Signals, nextChan, DS, result, lastOp,
          bcast, offered, delivered, reads, sigCount>>

\* helpers of the package that compare nodes by value
contains(list, n) == \E i \in 1..Len(list) : list[i] = n

containsDGNode(list, n) == \E i \in 1..Len(list) : list[i] = n

\* The graph as a record, so that an operation is a function on graphs.
Graph(T, So, Si, nc) == [Top |-> T, Signalers |-> So, Signals |-> Si, nextChan |-> nc]

\* NewGraph: no node, and no node has an entry in a signaling map yet.
NewGraph == Graph([x \in {} |-> <<>>], EmptyMap, EmptyMap, 0)

\* DGNode.ListSignalers: the outbound map of n.
ListSignalers(g, n) == IF n \in DOMAIN g.Signalers THEN g.Signalers[n] ELSE EmptyMap

\* DGNode.ListSignals: the inbound map of n.
ListSignals(g, n) == IF n \in DOMAIN g.Signals THEN g.Signals[n] ELSE EmptyMap

\* S with the map of n replaced by m (empty maps are not recorded).
SetMap(S, n, m) ==
    IF m = EmptyMap
    THEN [x \in (DOMAIN S) \ {n} |-> S[x]]
    ELSE [x \in (DOMAIN S) \cup {n} |-> IF x = n THEN m ELSE S[x]]

\* DGNode.UpdateSignaling: replaces both maps of n.
UpdateSignaling(g, n, sm, s) ==
    [g EXCEPT !.Signalers = SetMap(g.Signalers, n, sm), !.Signals = SetMap(g.Signals, n, s)]

\* Graph.Dependencies: the list stored for n, empty when n is not a key.
Dependencies(T, n) == IF n \in DOMAIN T THEN T[n] ELSE <<>>

\* Graph.Dependents: the keys with another ID whose list contains n.
Dependents(T, n) == {i \in DOMAIN T : i.id # n.id /\ containsDGNode(T[i], n)}

\* DGNode.ListDependencies: the node's copy of Graph.Dependencies.
ListDependencies(T, n) == Dependencies(T, n)

(* --------------------------- cycle detection -------------------------- *)

RECURSIVE cycleDfs(_, _, _, _, _)
RECURSIVE cycleDfsLoop(_, _, _, _, _, _)

\* A variant of the loop that takes a neighbor in done for a cycle.
cycleDfsLoopDoneIsCycle(T, adj, idx, seen, done, calls) ==
    IF idx > Len(adj)
    THEN [result |-> FALSE, done |-> done, calls |-> calls]
    ELSE LET v == adj[idx] IN
         IF contains(done, v) \/ contains(seen, v)
         THEN [result |-> TRUE, done |-> done, calls |-> calls]
         ELSE LET r == cycleDfs(T, v, seen, done, calls) IN
              IF r.result
              THEN r
              ELSE cycleDfsLoop(T, adj, idx + 1, seen, done, r.calls)

\* The loop of cycleDfs over adj[idx..]; yields [result, done] and, in calls,
\* the nodes cycleDfs has been called on so far, in the order of the calls.
cycleDfsLoop(T, adj, idx, seen, done, calls) ==
    IF idx > Len(adj)
    THEN [result |-> FALSE, done |-> done, calls |-> calls]
    ELSE LET v == adj[idx] IN
         IF contains(done, v)
         THEN cycleDfsLoop(T, adj, idx + 1, seen, done, calls)
         ELSE IF contains(seen, v)
              THEN [result |-> TRUE, done |-> done, calls |-> calls]
              ELSE LET r == cycleDfs(T, v, seen, done, calls) IN
                   IF r.result
                   THEN [result |-> TRUE, done |-> r.done, calls |-> r.calls]
                   \* the done of the inner call is scoped to the if statement
                   ELSE cycleDfsLoop(T, adj, idx + 1, seen, done, r.calls)

cycleDfs(T, start, seen, done, calls) ==
    LET seen1 == Append(seen, start)
        r == cycleDfsLoop(T, Dependencies(T, start), 1, seen1, done, Append(calls, start))
    IN  IF r.result
        THEN r
        ELSE [result |-> FALSE, done |-> Append(done, start), calls |-> r.calls]

RECURSIVE CycleDetectLoop(_, _, _, _, _)

\* The loop of CycleDetect over order[idx..]; yields [result, calls].
CycleDetectLoop(T, order, idx, done, calls) ==
    IF idx > Len(order)
    THEN [result |-> FALSE, calls |-> calls]
    ELSE IF contains(done, order[idx])
         THEN CycleDetectLoop(T, order, idx + 1, done, calls)
         ELSE LET r == cycleDfs(T, order[idx], <<>>, done, calls) IN
              IF r.result THEN [result |-> TRUE, calls |-> r.calls]
              ELSE CycleDetectLoop(T, order, idx + 1, r.done, r.calls)

\* One scan of CycleDetect, the keys of Top being ranged over in the given
\* order: its result and the calls of cycleDfs it made.
CycleDetectScan(T, order) == CycleDetectLoop(T, order, 1, <<>>, <<>>)

\* Graph.CycleDetect, the keys of Top being ranged over in the given order.
CycleDetect(T, order) == CycleDetectScan(T, order).result

(* ----------------------------- operations ----------------------------- *)

\* Graph.AddRealNode on a graph: [g, err].
AddRealNodeOp(g, node, comparable) ==
    IF ~comparable
    THEN [g |-> g, err |-> "NotComparable"]
    ELSE IF node \notin DOMAIN g.Top
         THEN [g |-> [g EXCEPT !.Top = [x \in (DOMAIN g.Top) \cup {node} |->
                                          IF x = node THEN <<>> ELSE g.Top[x]]],
               err |-> "nil"]
         ELSE [g |-> g, err |-> "DuplicateNode"]

\* Graph.AddVUI on a graph: [g, err].  nodeSlice lists the keys of Top.
AddVUIOp(g, node) ==
    IF ~node.virtual
    THEN [g |-> g, err |-> "NotVirtual"]
    ELSE IF ~contains(CHOOSE nodeSlice \in RangeOrders(DOMAIN g.Top) : TRUE, node)
         THEN [g |-> [g EXCEPT !.Top = [x \in (DOMAIN g.Top) \cup {node} |->
                                          IF x = node THEN <<>> ELSE g.Top[x]]],
               err |-> "nil"]
         ELSE [g |-> g, err |-> "DuplicateNode"]

\* A variant of the body of AddRealEdge that writes the grown list back.
AddRealEdgeStoring(g, i, dest) ==
    IF ~containsDGNode(g.Top[i], dest)
    THEN LET c == g.nextChan + 1
             g0 == [g EXCEPT !.nextChan = c, !.Top[i] = Append(@, dest)]
             g1 == UpdateSignaling(g0, dest, MapPut(ListSignalers(g0, dest), i.id, c),
                                   ListSignals(g0, dest))
             signals == IF i.id \in DOMAIN ListSignalers(g1, dest)
                        THEN MapPut(ListSignals(g1, i), dest.id, ListSignalers(g1, dest)[i.id])
                        ELSE ListSignals(g1, i)
         IN  UpdateSignaling(g1, i, ListSignalers(g1, i), signals)
    ELSE g

\* The body of the loop of AddRealEdge for a key i with i.ID() = source.
\* k = append(k, dest) grows the local slice k only: Top[i] keeps its list.
AddRealEdgeBody(g, i, dest) ==
    IF ~containsDGNode(g.Top[i], dest)
    THEN LET c == g.nextChan + 1
             g0 == [g EXCEPT !.nextChan = c]
             \* depSig[i.ID()] = make(chan ProcedureSignals); d.UpdateSignaling
             g1 == UpdateSignaling(g0, dest, MapPut(ListSignalers(g0, dest), i.id, c),
                                   ListSignals(g0, dest))
             \* signals[d.ID()] = v for the entry of i.ID() in d.ListSignalers()
             signals == IF i.id \in DOMAIN ListSignalers(g1, dest)
                        THEN MapPut(ListSignals(g1, i), dest.id, ListSignalers(g1, dest)[i.id])
                        ELSE ListSignals(g1, i)
         IN  UpdateSignaling(g1, i, ListSignalers(g1, i), signals)
    ELSE g

RECURSIVE AddRealEdgeLoop(_, _, _, _)

AddRealEdgeLoop(g, order, idx, dest) ==
    IF idx > Len(order)
    THEN g
    ELSE AddRealEdgeLoop(AddRealEdgeBody(g, order[idx], dest), order, idx + 1, dest)

\* The keys of Top that AddRealEdge(source, _) acts on.
SourceKeys(T, source) == {i \in DOMAIN T : i.id = source}

\* A variant of AddRealEdge that wires the destination whatever the source.
AddRealEdgeAlwaysWiring(g, source, dest, order) ==
    IF order = <<>>
    THEN UpdateSignaling([g EXCEPT !.nextChan = @ + 1], dest,
                         MapPut(ListSignalers(g, dest), source, g.nextChan + 1),
                         ListSignals(g, dest))
    ELSE AddRealEdgeLoop(g, order, 1, dest)

\* Graph.AddRealEdge on a graph; order is the order in which the range over
\* Top visits the keys whose ID is source.  The function returns nothing.
AddRealEdgeOp(g, source, dest, order) == AddRealEdgeLoop(g, order, 1, dest)

RECURSIVE RemoveVUILoop(_, _, _, _)

\* The loop of RemoveVUI over the keys of Top, on the inbound maps.
RemoveVUILoop(g, order, idx, node) ==
    IF idx > Len(order)
    THEN g
    ELSE LET n == order[idx]
             g1 == IF containsDGNode(g.Top[n], node)
                   THEN UpdateSignaling(g, n, ListSignalers(g, n),
                                        MapDelete(ListSignals(g, n), node.id))
                   ELSE g
         IN  RemoveVUILoop(g1, order, idx + 1, node)

\* A variant of RemoveVUI that removes the node without a test of its kind.
RemoveVUIOfAnyKind(g, node, order) ==
    LET g1 == RemoveVUILoop(g, order, 1, node) IN
    [g |-> [g1 EXCEPT !.Top = [x \in (DOMAIN g1.Top) \ {node} |-> g1.Top[x]]],
     err |-> "nil"]

\* Graph.RemoveVUI on a graph: [g, err].
RemoveVUIOp(g, node, order) ==
    IF ~node.ui
    THEN [g |-> g, err |-> "NotUI"]
    ELSE IF ~node.virtual
    THEN [g |-> g, err |-> "NotVirtual"]
    ELSE IF Len(ListDependencies(g.Top, node)) # 0
    THEN [g |-> g, err |-> "HasDependencies"]
    ELSE LET g1 == RemoveVUILoop(g, order, 1, node) IN
         [g |-> [g1 EXCEPT !.Top = [x \in (DOMAIN g1.Top) \ {node} |-> g1.Top[x]]],
          err |-> "nil"]

(* ------------------------------ actions ------------------------------- *)

Current == Graph(Top, Signalers, Signals, nextChan)

\* The maps of a node in the current graph.
Outbound(n) == ListSignalers(Current, n)

Inbound(n) == ListSignals(Current, n)

Install(g) ==
    /\ Top' = g.Top
    /\ Signalers' = g.Signalers
    /\ Signals' = g.Signals
    /\ nextChan' = g.nextChan
    /\ UNCHANGED DS

Call(op, id, node) == [op |-> op, id |-> id, node |-> node]

NoNode == [id |-> 0, ui |-> FALSE, virtual |-> FALSE]

\* A host structure without nodes and edges.
EmptyDS == [nodes |-> {}, edges |-> EmptyMap]

Init ==
    /\ Top = NewGraph.Top
    /\ Signalers = NewGraph.Signalers
    /\ Signals = NewGraph.Signals
    /\ nextChan = NewGraph.nextChan
    /\ DS = EmptyDS
    /\ result = "nil"
    /\ lastOp = Call("NewGraph", 0, NoNode)
    /\ bcast = EmptyMap
    /\ offered = EmptyMap
    /\ delivered = EmptyMap
    /\ reads = {}
    /\ sigCount = 0

\* comparable: whether the dynamic type of node can be a map key.
AddRealNode(node, comparable) ==
    /\ Cardinality(DOMAIN Top) < MaxNodes \/ node \in DOMAIN Top
    /\ LET r == AddRealNodeOp(Current, node, comparable) IN
         /\ Install(r.g)
         /\ result' = r.err
    /\ lastOp' = Call("AddRealNode", 0, node)
    /\ UNCHANGED svars

AddVUI(node) ==
    /\ node.ui
    /\ Cardinality(DOMAIN Top) < MaxNodes \/ node \in DOMAIN Top
    /\ LET r == AddVUIOp(Current, node) IN
         /\ Install(r.g)
         /\ result' = r.err
    /\ lastOp' = Call("AddVUI", 0, node)
    /\ UNCHANGED svars

\* The callers considered pass a node of the graph as dest.
AddRealEdge(source, dest) ==
    /\ dest \in DOMAIN Top
    /\ nextChan + Cardinality(SourceKeys(Top, source)) <= MaxChan
    /\ \E order \in RangeOrders(SourceKeys(Top, source)) :
         Install(AddRealEdgeOp(Current, source, dest, order))
    /\ result' = "none"
    /\ lastOp' = Call("AddRealEdge", source, dest)
    /\ UNCHANGED svars

RemoveVUI(node) ==
    /\ \E order \in RangeOrders(DOMAIN Top) :
         LET r == RemoveVUIOp(Current, node, order) IN
           /\ Install(r.g)
           /\ result' = r.err
    /\ lastOp' = Call("RemoveVUI", 0, node)
    /\ UNCHANGED svars

Next ==
    \/ \E node \in Nodes, comparable \in BOOLEAN : AddRealNode(node, comparable)
    \/ \E node \in Nodes : AddVUI(node)
    \/ \E source \in Ids, dest \in Nodes : AddRealEdge(source, dest)
    \/ \E node \in Nodes : RemoveVUI(node)

Spec == Init /\ [][Next]_vars

(* ------------------------------ signaling ----------------------------- *)

MaxSigNodes == 3
MaxSigEdges == 2
MaxSignals == 3

\* The Signal values a broadcast carries here.
SentSignals == {"Completed", "Aborted"}

\* The nodes of the signaling scenarios: primary nodes with distinct IDs.
SigNodes == {[id |-> i, ui |-> TRUE, virtual |-> FALSE] : i \in 1..MaxSigNodes}

\* The edges (dependent, dependency) a scenario may be built with.
SigPairs == {e \in SigNodes \X SigNodes : e[1] # e[2]}

RECURSIVE InsertAll(_, _)

\* AddRealNode of every node of S, one after the other.
InsertAll(g, S) ==
    IF S = {} THEN g
    ELSE LET n == CHOOSE x \in S : TRUE IN
         InsertAll(AddRealNodeOp(g, n, TRUE).g, S \ {n})

RECURSIVE WireAll(_, _)

\* AddRealEdge of every edge of E, one after the other.
WireAll(g, E) ==
    IF E = {} THEN g
    ELSE LET e == CHOOSE x \in E : TRUE IN
         WireAll(AddRealEdgeOp(g, e[1].id, e[2], <<e[1]>>), E \ {e})

\* Node p has a Signal call in progress.
Active(p) == p \in DOMAIN bcast

\* The values logged for channel c.
Log(L, c) == IF c \in DOMAIN L THEN L[c] ELSE <<>>

LogAppend(L, c, v) == [x \in (DOMAIN L) \cup {c} |-> IF x = c THEN Append(Log(L, c), v) ELSE L[x]]

\* A constructed graph: nodes inserted, then at most MaxSigEdges edges added;
\* at most one node has a thread that never reads.
SigInit ==
    /\ \E E \in SUBSET SigPairs :
         /\ Cardinality(E) <= MaxSigEdges
         /\ LET g == WireAll(InsertAll(NewGraph, SigNodes), E) IN
              /\ Top = g.Top
              /\ Signalers = g.Signalers
              /\ Signals = g.Signals
              /\ nextChan = g.nextChan
    /\ DS = EmptyDS
    /\ result = "none"
    /\ lastOp = Call("NewGraph", 0, NoNode)
    /\ bcast = EmptyMap
    /\ offered = EmptyMap
    /\ delivered = EmptyMap
    /\ \E dead \in SigNodes \cup {NoNode} : reads = SigNodes \ {dead}
    /\ sigCount = 0

\* r.Signal(s) is entered: the range over r.Signalers begins.
SignalBegin(p, s) ==
    /\ p \in DOMAIN Top
    /\ ~Active(p)
    /\ sigCount < MaxSignals
    /\ sigCount' = sigCount + 1
    /\ bcast' = [x \in (DOMAIN bcast) \cup {p} |->
                   IF x = p THEN [val |-> s, todo |-> DOMAIN Outbound(p), cur |-> 0]
                   ELSE bcast[x]]
    /\ UNCHANGED <<gvars, offered, delivered, reads>>

\* r.Signal(s) is called by a thread of the node.
SignalCall(p, s) == SignalBegin(p, s) /\ UNCHANGED <<result, lastOp>>

\* The range yields the entry of dependent d: the sender blocks in c <- s.
SignalSend(p, d) ==
    /\ Active(p)
    /\ bcast[p].cur = 0
    /\ d \in bcast[p].todo
    /\ bcast' = [bcast EXCEPT ![p].cur = d]
    /\ offered' = LogAppend(offered, Outbound(p)[d], bcast[p].val)
    /\ UNCHANGED <<gvars, result, lastOp, delivered, reads, sigCount>>

\* A variant of AfterReceive in which the send is not completed.
AfterReceiveNotTaken(b) == b

\* The Signal call b once its pending send has been received.
AfterReceive(b) == [b EXCEPT !.cur = 0, !.todo = @ \ {b.cur}]

\* Node r reads the channel under k of its inbound map, on which p is sending:
\* the unbuffered send and the receive complete together.
Receive(r, k, p) ==
    /\ r \in reads
    /\ k \in DOMAIN Inbound(r)
    /\ Active(p)
    /\ bcast[p].cur # 0
    /\ Outbound(p)[bcast[p].cur] = Inbound(r)[k]
    /\ delivered' = LogAppend(delivered, Inbound(r)[k], bcast[p].val)
    /\ bcast' = [bcast EXCEPT ![p] = AfterReceive(@)]
    /\ UNCHANGED <<gvars, result, lastOp, offered, reads, sigCount>>

\* The range is exhausted: the loop of Signal ends.
SignalEnd(p) ==
    /\ Active(p)
    /\ bcast[p].cur = 0
    /\ bcast[p].todo = {}
    /\ bcast' = [x \in (DOMAIN bcast) \ {p} |-> bcast[x]]
    /\ UNCHANGED <<gvars, offered, delivered, reads, sigCount>>

\* Signal returns to the thread that called it.
SignalReturn(p) == SignalEnd(p) /\ UNCHANGED <<result, lastOp>>

SigNext ==
    \/ \E p \in SigNodes, s \in SentSignals : SignalCall(p, s)
    \/ \E p \in SigNodes, d \in 1..MaxSigNodes : SignalSend(p, d)
    \/ \E r \in SigNodes, k \in 1..MaxSigNodes, p \in SigNodes : Receive(r, k, p)
    \/ \E p \in SigNodes : SignalReturn(p)

SigSpec == SigInit /\ [][SigNext]_vars

\* Every thread that can take a step eventually takes it; a thread of a node
\* outside reads never receives.
SigFairness ==
    /\ \A p \in SigNodes, d \in 1..MaxSigNodes : WF_vars(SignalSend(p, d))
    /\ \A r \in SigNodes, k \in 1..MaxSigNodes, p \in SigNodes : WF_vars(Receive(r, k, p))
    /\ \A p \in SigNodes : WF_vars(SignalReturn(p))

FairSigSpec == SigInit /\ [][SigNext]_vars /\ SigFairness

(* ------------------- properties of the topology store ----------------- *)

\* (dependent d, dependency p) is an edge stored in the topology.
IsEdge(d, p) == d \in DOMAIN Top /\ containsDGNode(Top[d], p)

C2_ReverseEdgeRejected ==
    [][\A a, b \in DOMAIN Top :
         (/\ a.id # b.id
          /\ lastOp = Call("AddRealEdge", a.id, b)
          /\ lastOp' = Call("AddRealEdge", b.id, a))
         => (result' = "CycleDetected" /\ UNCHANGED <<Top, Signalers, Signals>>)]_vars

\* C3: edges and conduits correspond one to one: an edge (d, p) has one
\* conduit, under d in p's outbound map and under p in d's inbound map, and
\* an entry of an outbound or inbound map of a node of the graph (under the
\* identifier of another node) belongs to an edge of the topology.
C3_EdgeConduitBijection ==
    /\ \A d \in DOMAIN Top : \A k \in 1..Len(Top[d]) :
         LET p == Top[d][k] IN
           /\ d.id \in DOMAIN Outbound(p)
           /\ p.id \in DOMAIN Inbound(d)
           /\ Outbound(p)[d.id] = Inbound(d)[p.id]
    /\ \A p \in DOMAIN Top : \A k \in (DOMAIN Outbound(p)) \ {p.id} :
         \E d \in DOMAIN Top : d.id = k /\ IsEdge(d, p)
    /\ \A d \in DOMAIN Top : \A k \in (DOMAIN Inbound(d)) \ {d.id} :
         \E p \in DOMAIN Top : p.id = k /\ IsEdge(d, p)

\* C4: after AddRealEdge(D.id, P) on a node D of the graph and another node
\* P, Dependencies(D) contains P and Dependents(P) contains D.
C4_EdgeStored ==
    \A D \in DOMAIN Top :
      (/\ lastOp.op = "AddRealEdge"
       /\ lastOp.id = D.id
       /\ lastOp.node.id # D.id)
      => (/\ contains(Dependencies(Top, D), lastOp.node)
          /\ D \in Dependents(Top, lastOp.node))

\* C5: RemoveVUI on a virtual node V whose dependency set is not empty (its
\* stored list is not empty, or AddRealEdge has just given it a dependency)
\* fails with HasDependencies, and changes no part of the graph.
C5_RemoveWithDependenciesFails ==
    [][\A V \in DOMAIN Top :
         (/\ V.ui /\ V.virtual
          /\ \/ Len(Dependencies(Top, V)) # 0
             \/ \E P \in DOMAIN Top : P.id # V.id /\ lastOp = Call("AddRealEdge", V.id, P)
          /\ lastOp' = Call("RemoveVUI", 0, V))
         => (result' = "HasDependencies" /\ UNCHANGED gvars)]_vars

\* C6: after a successful RemoveVUI(V), V being the only node with its
\* identifier, V is not a node of the graph, no node of the graph has an
\* inbound entry under V's identifier and no dependency list contains V.
C6_NoDanglingAfterRemove ==
    (/\ lastOp.op = "RemoveVUI"
     /\ result = "nil"
     /\ \A n \in DOMAIN Top : n.id # lastOp.node.id)
    => (/\ lastOp.node \notin DOMAIN Top
        /\ \A n \in DOMAIN Top :
             /\ lastOp.node.id \notin DOMAIN Inbound(n)
             /\ ~containsDGNode(Top[n], lastOp.node))

\* C9: AddRealNode of a node whose identifier is used by a node of the graph
\* fails with DuplicateNode and changes nothing, so that no two nodes of the
\* graph ever have the same identifier; a successful AddRealNode gives the
\* node an empty list and touches no other entry.
C9_UniqueIdentifiers ==
    [][/\ \A node \in Nodes :
            lastOp' = Call("AddRealNode", 0, node) =>
              /\ (\E n \in DOMAIN Top : n.id = node.id)
                   => (result' = "DuplicateNode" /\ UNCHANGED gvars)
              /\ result' = "nil"
                   => /\ node \in DOMAIN Top' /\ Top'[node] = <<>>
                      /\ \A n \in DOMAIN Top : n \in DOMAIN Top' /\ Top'[n] = Top[n]
       /\ \A a, b \in DOMAIN Top' : a.id = b.id => a = b]_vars

IsPrefix(a, b) == Len(a) <= Len(b) /\ \A i \in 1..Len(a) : a[i] = b[i]

\* The nodes that have an entry in p's outbound map.
DependentsOf(p) == {d \in DOMAIN Top : d.id \in DOMAIN Outbound(p)}

\* C7: a Signal call of a node with two or more dependents, one of which
\* never reads, still reaches every dependent that reads, and returns.
C7_BroadcastNotBlocked ==
    \A p \in SigNodes :
      /\ \A d \in SigNodes :
           (/\ Active(p) /\ d.id \in bcast[p].todo /\ d \in reads
            /\ Cardinality(DependentsOf(p)) >= 2
            /\ Cardinality(DependentsOf(p) \ reads) = 1)
           ~> (~Active(p) \/ d.id \notin bcast[p].todo)
      /\ (/\ Active(p)
          /\ Cardinality(DependentsOf(p)) >= 2
          /\ Cardinality(DependentsOf(p) \ reads) = 1)
         ~> ~Active(p)

\* C8: on every conduit the values received are, in order, the values the
\* sender began to send: at most the last one is still to be received, and
\* none is once the Signal call has returned.
C8_FifoPerConduit ==
    /\ \A c \in 1..nextChan :
         /\ IsPrefix(Log(delivered, c), Log(offered, c))
         /\ Len(Log(offered, c)) <= Len(Log(delivered, c)) + 1
    /\ \A p \in DOMAIN Top : ~Active(p) =>
         \A k \in DOMAIN Outbound(p) :
           Log(delivered, Outbound(p)[k]) = Log(offered, Outbound(p)[k])

\* A dependent has received two different signals over one conduit while
\* another node has signaled as well.
C8_Witness ==
    \E c \in 1..nextChan :
      /\ Len(Log(delivered, c)) = 2
      /\ delivered[c][1] # delivered[c][2]
      /\ \E c2 \in (1..nextChan) \ {c} : Len(Log(delivered, c2)) > 0

(* ------------------------- totality-uniqueness ------------------------ *)

MaxRef == 2

\* Nodes that may be pointers: ref is the address of a pointer node (a key of
\* Top is then the pointer) and 0 for a node that is a plain value.
RefNodes == [id : Ids, ui : BOOLEAN, virtual : BOOLEAN, ref : 0..MaxRef]

\* reflect.DeepEqual on two nodes: pointers are followed, values compared.
DeepEqual(a, b) == [a EXCEPT !.ref = 0] = [b EXCEPT !.ref = 0]

RECURSIVE TotalityUniqueInner(_, _, _, _)

\* A variant of the inner loop that also compares a node with itself.
TotalityUniqueInnerWithSelf(uiSlice, i, j, done) ==
    IF j > Len(uiSlice)
    THEN TRUE
    ELSE IF ~contains(done, uiSlice[j]) /\ DeepEqual(uiSlice[i], uiSlice[j])
         THEN FALSE
         ELSE TotalityUniqueInner(uiSlice, i, j + 1, done)

\* The inner loop of TotalityUnique from index j on: FALSE when it returns false.
TotalityUniqueInner(uiSlice, i, j, done) ==
    IF j > Len(uiSlice)
    THEN TRUE
    ELSE IF ~contains(done, uiSlice[j]) /\ j # i /\ DeepEqual(uiSlice[i], uiSlice[j])
         THEN FALSE
         ELSE TotalityUniqueInner(uiSlice, i, j + 1, done)

RECURSIVE TotalityUniqueOuter(_, _, _)

\* The outer loop of TotalityUnique from index i on.
TotalityUniqueOuter(uiSlice, i, done) ==
    IF i > Len(uiSlice)
    THEN TRUE
    ELSE IF ~TotalityUniqueInner(uiSlice, i, 1, done)
         THEN FALSE
         ELSE TotalityUniqueOuter(uiSlice, i + 1, Append(done, uiSlice[i]))

\* The keys of order whose GetType() is UINode, in that order.
UISlice(order) == SelectSeq(order, LAMBDA n : GetType(n) = "UINode")

\* Graph.TotalityUnique, the keys of T being ranged over in the given order.
TotalityUnique(T, order) == TotalityUniqueOuter(UISlice(order), 1, <<>>)

Bool(b) == IF b THEN "true" ELSE "false"

\* AddRealNode of a node that may be a pointer; an address has one pointee.
AddRefNode(node) ==
    /\ Cardinality(DOMAIN Top) < MaxNodes \/ node \in DOMAIN Top
    /\ \A k \in DOMAIN Top : (node.ref # 0 /\ k.ref = node.ref) => k = node
    /\ LET r == AddRealNodeOp(Current, node, TRUE) IN
         /\ Install(r.g)
         /\ result' = r.err
    /\ lastOp' = Call("AddRealNode", 0, node)
    /\ UNCHANGED svars

TotalityUniqueCall ==
    /\ \E order \in RangeOrders(DOMAIN Top) :
         result' = Bool(TotalityUnique(Top, order))
    /\ lastOp' = Call("TotalityUnique", 0, NoNode)
    /\ UNCHANGED <<gvars, svars>>

UniqueNext ==
    \/ \E node \in RefNodes : AddRefNode(node)
    \/ TotalityUniqueCall

UniqueSpec == Init /\ [][UniqueNext]_vars

\* The primary nodes of the graph.
PrimaryNodes == {n \in DOMAIN Top : GetType(n) = "UINode"}

\* C11: TotalityUnique returns false exactly when two distinct primary
\* (UINode) nodes of the graph are structurally identical; it returns true
\* otherwise, also without primary nodes, whatever the other nodes are.
C11_TotalityUnique ==
    lastOp.op = "TotalityUnique" =>
      (result = "false" <=>
         \E a, b \in PrimaryNodes : a # b /\ DeepEqual(a, b))

\* TotalityUnique has returned false on a graph with two identical primary nodes.
C11_Witness ==
    /\ lastOp.op = "TotalityUnique"
    /\ result = "false"
    /\ Cardinality(PrimaryNodes) >= 2

(* ------------------------------ coverage ------------------------------ *)

MaxHost == 3
MaxAdj == 1

\* The nodes a host structure may have (NodeList), by identifier.
HostNodes == 1..MaxHost

\* The adjacency lists an EdgesMap may hold.
AdjLists == {<<d>> : d \in 1..MaxAdj}

\* EdgesMap: from some nodes to their adjacency lists.
EdgesMaps == UNION {[S -> AdjLists] : S \in SUBSET HostNodes}

\* The edges (source, destination) an EdgesMap holds.
EdgesOf(E) == UNION {{<<s, E[s][k]>> : k \in DOMAIN E[s]} : s \in DOMAIN E}

\* The host structures (CDS) and the sections of a host structure: what
\* ListNodes() and ListEdges() return, the edges being among the nodes.
HostStructures ==
    {h \in [nodes : SUBSET HostNodes, edges : EdgesMaps] :
        \A e \in EdgesOf(h.edges) : e[1] \in h.nodes /\ e[2] \in h.nodes}

EmptySection == [nodes |-> {}, edges |-> EmptyMap]

\* Nodes with the section GetSection() returns; only a UI has one.
SectionNodes ==
    {n \in [id : Ids, ui : BOOLEAN, virtual : BOOLEAN, sec : HostStructures] :
        ~n.ui => (n.sec = EmptySection /\ ~n.virtual)}

\* helpers of the package: a node is in a NodeList; an adjacency list, which
\* is all that Covered passes, is a value of an EdgesMap
containsNode(list, v) == v \in list

containsEdge(edges, v) == \E k \in DOMAIN edges : edges[k] = v

RECURSIVE ListOf(_)

\* The elements of S as a list.
ListOf(S) ==
    IF S = {} THEN <<>>
    ELSE LET x == CHOOSE y \in S : TRUE IN <<x>> \o ListOf(S \ {x})

\* The values "for _, v := range edges" yields, the keys being dropped.
RangeValues(E) == [i \in 1..Cardinality(DOMAIN E) |-> E[ListOf(DOMAIN E)[i]]]

RECURSIVE SomeSectionHasNode(_, _, _)

\* The loop over uiSlice[k..] for host node v: TRUE on continue FIRST.
SomeSectionHasNode(uiSlice, k, v) ==
    IF k > Len(uiSlice)
    THEN FALSE
    ELSE IF containsNode(uiSlice[k].sec.nodes, v)
         THEN TRUE
         ELSE SomeSectionHasNode(uiSlice, k + 1, v)

RECURSIVE SomeSectionHasEdge(_, _, _)

\* The loop over uiSlice[k..] for the ranged value v: TRUE on continue SECOND.
SomeSectionHasEdge(uiSlice, k, v) ==
    IF k > Len(uiSlice)
    THEN FALSE
    ELSE IF containsEdge(uiSlice[k].sec.edges, v)
         THEN TRUE
         ELSE SomeSectionHasEdge(uiSlice, k + 1, v)

RECURSIVE CoveredEdges(_, _, _)

\* The loop SECOND of Covered over edges[idx..].
CoveredEdges(uiSlice, edges, idx) ==
    IF idx > Len(edges)
    THEN TRUE
    ELSE IF SomeSectionHasEdge(uiSlice, 1, edges[idx])
         THEN CoveredEdges(uiSlice, edges, idx + 1)
         ELSE FALSE

RECURSIVE CoveredNodes(_, _, _, _)

\* The loop FIRST of Covered over nodes[idx..], then the loop SECOND.
CoveredNodes(uiSlice, nodes, edges, idx) ==
    IF idx > Len(nodes)
    THEN CoveredEdges(uiSlice, edges, 1)
    ELSE IF SomeSectionHasNode(uiSlice, 1, nodes[idx])
         THEN CoveredNodes(uiSlice, nodes, edges, idx + 1)
         ELSE FALSE

\* Graph.Covered, the keys of the graph being ranged over in the given order.
Covered(ds, order) ==
    CoveredNodes(UISlice(order), ListOf(ds.nodes), RangeValues(ds.edges), 1)

\* A graph for some host structure.
CoverInit ==
    /\ Top = NewGraph.Top
    /\ Signalers = NewGraph.Signalers
    /\ Signals = NewGraph.Signals
    /\ nextChan = NewGraph.nextChan
    /\ DS \in HostStructures
    /\ result = "nil"
    /\ lastOp = Call("NewGraph", 0, NoNode)
    /\ bcast = EmptyMap
    /\ offered = EmptyMap
    /\ delivered = EmptyMap
    /\ reads = {}
    /\ sigCount = 0

\* AddRealNode of a node with a new identifier, its section a part of the host.
AddSectionNode(node) ==
    /\ Cardinality(DOMAIN Top) < MaxNodes
    /\ \A k \in DOMAIN Top : k.id # node.id
    /\ node.sec.nodes \subseteq DS.nodes
    /\ EdgesOf(node.sec.edges) \subseteq EdgesOf(DS.edges)
    /\ LET r == AddRealNodeOp(Current, node, TRUE) IN
         /\ Install(r.g)
         /\ result' = r.err
    /\ lastOp' = Call("AddRealNode", 0, node)
    /\ UNCHANGED svars

CoveredCall ==
    /\ \E order \in RangeOrders(DOMAIN Top) :
         result' = Bool(Covered(DS, order))
    /\ lastOp' = Call("Covered", 0, NoNode)
    /\ UNCHANGED <<gvars, svars>>

CoverNext ==
    \/ \E node \in SectionNodes : AddSectionNode(node)
    \/ CoveredCall

CoverSpec == CoverInit /\ [][CoverNext]_vars

\* C12: Covered returns true exactly when every node and every edge of the
\* host structure is listed by the section of some UINode node of the graph.
C12_Covered ==
    lastOp.op = "Covered" =>
      (result = "true" <=>
         /\ \A v \in DS.nodes : \E u \in PrimaryNodes : v \in u.sec.nodes
         /\ \A e \in EdgesOf(DS.edges) :
              \E u \in PrimaryNodes : e \in EdgesOf(u.sec.edges))

(* -------------------------- access procedures ------------------------ *)

\* The access procedures of package db.
Procedures == {"AddTreeNode", "AddTreeEdge", "DeleteTreeEntity", "ReadTreeNode", "UpdateTreeNode"}

\* The procedures whose Commit is "return nil".
ReturningProcedures == Procedures \ {"AddTreeNode"}

\* Commit of one of them on node p: it returns nil at once.
CommitReturnNil(proc, p) ==
    /\ proc \in ReturningProcedures
    /\ p \in DOMAIN Top
    /\ result # "running"
    /\ result' = "nil"
    /\ lastOp' = Call(proc, 0, p)
    /\ UNCHANGED <<gvars, svars>>

\* AddTreeNode.Commit on node p is entered: it calls n.Signal().
AddTreeNodeCommit(p, s) ==
    /\ result # "running"
    /\ SignalBegin(p, s)
    /\ result' = "running"
    /\ lastOp' = Call("AddTreeNode", 0, p)

\* n.Signal() has returned: AddTreeNode.Commit returns nil.
AddTreeNodeCommitReturn(p) ==
    /\ result = "running"
    /\ lastOp = Call("AddTreeNode", 0, p)
    /\ SignalEnd(p)
    /\ result' = "nil"
    /\ UNCHANGED lastOp

CommitNext ==
    \/ \E proc \in Procedures, p \in SigNodes : CommitReturnNil(proc, p)
    \/ \E p \in SigNodes, s \in SentSignals : AddTreeNodeCommit(p, s)
    \/ \E p \in SigNodes, d \in 1..MaxSigNodes : SignalSend(p, d)
    \/ \E r \in SigNodes, k \in 1..MaxSigNodes, p \in SigNodes : Receive(r, k, p)
    \/ \E p \in SigNodes : AddTreeNodeCommitReturn(p)

CommitSpec == SigInit /\ [][CommitNext]_vars

\* A Commit returns in this step.
CommitReturns ==
    /\ lastOp'.op \in Procedures
    /\ result' = "nil"
    /\ lastOp' # lastOp \/ result' # result

\* This step ends a broadcast of an outcome by node p that has reached every
\* outbound conduit of p.
BroadcastEnds(p) ==
    /\ p \in DOMAIN bcast
    /\ bcast[p].val \in SentSignals
    /\ bcast[p].todo = {}
    /\ p \notin DOMAIN bcast'

\* C13: a Commit that has begun returns only at the end of a broadcast of an
\* outcome on the outbound conduits of the owning node, never silently.
C13_CommitSignalsOutcome == [][CommitReturns => BroadcastEnds(lastOp'.node)]_vars

(* ------------------------------ rollback ------------------------------ *)

\* A call of a procedure or of its Rollback, with the RestoreNodes and the
\* RestoreEdges captured before the procedure ran.
ProcCall(op, np, el) == [op |-> op, id |-> 0, node |-> NoNode, np |-> np, el |-> el]

\* A tree (held in DS) and no graph.
TreeInit ==
    /\ Top = NewGraph.Top
    /\ Signalers = NewGraph.Signalers
    /\ Signals = NewGraph.Signals
    /\ nextChan = NewGraph.nextChan
    /\ DS \in HostStructures
    /\ result = "nil"
    /\ lastOp = ProcCall("NewTree", DS.nodes, DS.edges)
    /\ bcast = EmptyMap
    /\ offered = EmptyMap
    /\ delivered = EmptyMap
    /\ reads = {}
    /\ sigCount = 0

\* The procedure proc has run on the tree and left it as ds.
Ran(proc, ds) ==
    /\ DS' = ds
    /\ result' = "PartialAbort"
    /\ lastOp' = ProcCall(proc, DS.nodes, DS.edges)
    /\ UNCHANGED <<Top, Signalers, Signals, nextChan, svars>>

\* The function of an AddTreeNode procedure: node v joins the tree.
RunAddTreeNode(v) ==
    /\ v \notin DS.nodes
    /\ Ran("AddTreeNode", [DS EXCEPT !.nodes = @ \cup {v}])

\* The function of an AddTreeEdge procedure: an edge from s to d joins the tree.
RunAddTreeEdge(s, d) ==
    /\ s \in DS.nodes
    /\ d \in DS.nodes
    /\ s \notin DOMAIN DS.edges
    /\ Ran("AddTreeEdge", [DS EXCEPT !.edges = MapPut(@, s, <<d>>)])

\* The function of a DeleteTreeEntity procedure: node i leaves the tree with
\* the edges at i.
RunDeleteTreeEntity(i) ==
    /\ i \in DS.nodes
    /\ Ran("DeleteTreeEntity",
           [nodes |-> DS.nodes \ {i},
            edges |-> [s \in {x \in DOMAIN DS.edges : x # i /\ DS.edges[x] # <<i>>} |-> DS.edges[s]]])

\* Rollback(np, el) of any procedure: return nil.
Rollback(proc, np, el) ==
    /\ result' = "nil"
    /\ lastOp' = ProcCall("Rollback", np, el)
    /\ UNCHANGED <<gvars, svars>>

\* Rollback is invoked with the snapshot taken before the procedure ran.
RollbackCall(proc) ==
    /\ lastOp.op \in {proc, "Rollback"}
    /\ Rollback(proc, lastOp.np, lastOp.el)

RollbackNext ==
    \/ \E v \in HostNodes : RunAddTreeNode(v)
    \/ \E s \in HostNodes, d \in 1..MaxAdj : RunAddTreeEdge(s, d)
    \/ \E i \in HostNodes : RunDeleteTreeEntity(i)
    \/ \E proc \in Procedures : RollbackCall(proc)

RollbackSpec == TreeInit /\ [][RollbackNext]_vars

\* C14: after Rollback with the snapshot captured before the procedure ran,
\* the nodes and the edges are exactly those of the snapshot (and a second
\* Rollback with the same snapshot leaves them so).
C14_RollbackRestoresSnapshot ==
    lastOp.op = "Rollback" => (DS.nodes = lastOp.np /\ DS.edges = lastOp.el)

(* ------------------------------- poset -------------------------------- *)

\* The nodes one step along an edge of E from a node of X.
Successors(E, X) == {e[2] : e \in {f \in E : f[1] \in X}}

RECURSIVE Closure(_, _)

\* The nodes reached from X along the edges of E, X included.
Closure(E, X) ==
    LET Y == X \cup Successors(E, X) IN
    IF Y = X THEN X ELSE Closure(E, Y)

\* The edges E hold a directed cycle.
HasCycle(E) == \E e \in E : e[1] \in Closure(E, {e[2]})

\* The ordering policies on the nodes N: the dependencies Order decides for
\* each node, never the node itself.
Policies(N) == {f \in [N -> SUBSET N] : \A n \in N : n \notin f[n]}

\* The edges (dependent, dependency) a policy decides.
PolicyEdges(policy) == {e \in (DOMAIN policy) \X (DOMAIN policy) : e[2] \in policy[e[1]]}

\* A call of InitGraph with its nodes, its policy and the nodes ordered so far.
PosetCall(nodes, policy, ordered) ==
    [op |-> "InitGraph", id |-> 0, node |-> NoNode,
     nodes |-> nodes, policy |-> policy, ordered |-> ordered]

\* InitGraph(nodes) is entered: a new graph, every node inserted.
InitGraphBegin(N, policy) ==
    /\ result # "running"
    /\ N # {}
    /\ Install(InsertAll(NewGraph, N))
    /\ result' = "running"
    /\ lastOp' = PosetCall(N, policy, {})
    /\ UNCHANGED svars

\* Order(n): the edges the policy decides for n are added with AddRealEdge,
\* which returns nothing.
Order(n) ==
    /\ result = "running"
    /\ lastOp.op = "InitGraph"
    /\ n \in lastOp.nodes \ lastOp.ordered
    /\ Install(WireAll(Current, {<<n, d>> : d \in lastOp.policy[n]}))
    /\ lastOp' = [lastOp EXCEPT !.ordered = @ \cup {n}]
    /\ UNCHANGED <<result, svars>>

\* Every node is ordered: InitGraph returns the graph.
InitGraphReturn ==
    /\ result = "running"
    /\ lastOp.op = "InitGraph"
    /\ lastOp.ordered = lastOp.nodes
    /\ result' = "nil"
    /\ UNCHANGED <<gvars, lastOp, svars>>

PosetNext ==
    \/ \E N \in SUBSET SigNodes : \E policy \in Policies(N) : InitGraphBegin(N, policy)
    \/ \E n \in SigNodes : Order(n)
    \/ InitGraphReturn

PosetSpec == Init /\ [][PosetNext]_vars

\* InitGraph has returned.
InitGraphReturned == lastOp.op = "InitGraph" /\ result # "running"

\* C15: InitGraph inserts every node before it returns and, when the edges
\* the policy decides close a cycle (so that one of them has to be rejected),
\* it fails with OrderingProducedCycle instead of returning a graph.
C15_OrderingProducedCycle ==
    InitGraphReturned =>
      /\ lastOp.nodes \subseteq DOMAIN Top
      /\ HasCycle(PolicyEdges(lastOp.policy)) => result = "OrderingProducedCycle"

(* ------------------------ cycle detection scans ----------------------- *)

MaxCdNodes == 3
MaxCdEdges == 3

\* The nodes of the graphs CycleDetect is run on.
CdNodes == {[id |-> i, ui |-> TRUE, virtual |-> FALSE] : i \in 1..MaxCdNodes}

\* The edges (dependent, dependency) stored in T.
StoredEdges(T) == {e \in (DOMAIN T) \X (DOMAIN T) : containsDGNode(T[e[1]], e[2])}

\* A graph with some of the nodes inserted.
CdInit ==
    /\ \E N \in SUBSET CdNodes :
         LET g == InsertAll(NewGraph, N) IN
           /\ Top = g.Top
           /\ Signalers = g.Signalers
           /\ Signals = g.Signals
           /\ nextChan = g.nextChan
    /\ DS = EmptyDS
    /\ result = "nil"
    /\ lastOp = Call("NewGraph", 0, NoNode)
    /\ bcast = EmptyMap
    /\ offered = EmptyMap
    /\ delivered = EmptyMap
    /\ reads = {}
    /\ sigCount = 0

\* A write to the exported field: g.Top[a] = append(g.Top[a], &b).
StoreEdge(a, b) ==
    /\ a \in DOMAIN Top
    /\ b \in DOMAIN Top
    /\ ~containsDGNode(Top[a], b)
    /\ Cardinality(StoredEdges(Top)) < MaxCdEdges
    /\ Top' = [Top EXCEPT ![a] = Append(@, b)]
    /\ result' = "none"
    /\ lastOp' = Call("StoreEdge", a.id, b)
    /\ UNCHANGED <<Signalers, Signals, nextChan, DS, svars>>

\* A call of CycleDetect; the calls of cycleDfs it made are kept with it.
CycleDetectCall ==
    /\ \E order \in RangeOrders(DOMAIN Top) :
         LET scan == CycleDetectScan(Top, order) IN
           /\ result' = Bool(scan.result)
           /\ lastOp' = [op |-> "CycleDetect", id |-> 0, node |-> NoNode,
                         calls |-> scan.calls]
    /\ UNCHANGED <<gvars, svars>>

CdNext ==
    \/ \E a, b \in CdNodes : StoreEdge(a, b)
    \/ CycleDetectCall

CdSpec == CdInit /\ [][CdNext]_vars

\* C16: CycleDetect returns true exactly when the stored dependency relation
\* has a directed cycle, self-loops included, whatever node the scan visits
\* first.
C16_CycleDetectIffCycle ==
    lastOp.op = "CycleDetect" => (result = "true" <=> HasCycle(StoredEdges(Top)))

\* CycleDetect has returned false on a graph in which a node is reached
\* along two different paths.
C16_Witness ==
    /\ lastOp.op = "CycleDetect"
    /\ result = "false"
    /\ \E a, b, c \in DOMAIN Top :
         /\ a # b /\ b # c /\ a # c
         /\ {<<a, b>>, <<b, c>>, <<a, c>>} \subseteq StoredEdges(Top)

\* The number of calls of cycleDfs on node n in a scan.
Expansions(calls, n) == Cardinality({i \in DOMAIN calls : calls[i] = n})

\* C17: in one scan of CycleDetect over an acyclic graph, cycleDfs is called
\* on every node exactly once.
C17_ExpandedOnce ==
    (lastOp.op = "CycleDetect" /\ result = "false") =>
      \A n \in DOMAIN Top : Expansions(lastOp.calls, n) = 1

(* -------------------- repeated and self-referential edges ------------- *)

\* C18: AddRealEdge(D, P) called again right after AddRealEdge(D, P), D a
\* node of the graph other than P, is a no-op: the dependency lists, the
\* signaling maps and the conduits allocated stay as the first call left them.
C18_AddRealEdgeIdempotent ==
    [][(/\ lastOp.op = "AddRealEdge"
        /\ lastOp' = lastOp
        /\ SourceKeys(Top, lastOp.id) # {}
        /\ lastOp.id # lastOp.node.id)
         => UNCHANGED gvars]_vars

\* C19: AddRealEdge(n, n) for a node n of the graph fails with
\* SelfDependency; it stores no edge and installs no conduit.
C19_SelfEdgeRejected ==
    [][(/\ lastOp'.op = "AddRealEdge"
        /\ SourceKeys(Top, lastOp'.id) = {lastOp'.node})
         => (result' = "SelfDependency" /\ UNCHANGED gvars)]_vars

(* --------------------------- rewiring pass ---------------------------- *)

MaxPassChan == 4

\* The nil channel: what a lookup of a key a map does not hold yields.
NilChan == 0

RECURSIVE MakeSignalers(_, _, _)

\* The first loop of the pass for one node: a new channel for each of the
\* dependents deps[idx..], keyed by the dependent's ID; yields [sm, nextChan].
MakeSignalers(deps, idx, acc) ==
    IF idx > Len(deps)
    THEN acc
    ELSE MakeSignalers(deps, idx + 1,
                       [sm |-> MapPut(acc.sm, deps[idx].id, acc.nextChan + 1),
                        nextChan |-> acc.nextChan + 1])

RECURSIVE MakeSignals(_, _, _, _)

\* The second loop of the pass for one node: for each dependency dep of
\* l[idx..], the entry of dep's outbound map under dep's own ID.
MakeSignals(g, l, idx, s) ==
    IF idx > Len(l)
    THEN s
    ELSE LET dep == l[idx]
             channels == ListSignalers(g, dep)
             ch == IF dep.id \in DOMAIN channels THEN channels[dep.id] ELSE NilChan
         IN  MakeSignals(g, l, idx + 1, MapPut(s, dep.id, ch))

RECURSIVE SignalsAndSignalersLoop(_, _, _)

\* The loop of SignalsAndSignalers over the keys order[idx..] of Top.
SignalsAndSignalersLoop(g, order, idx) ==
    IF idx > Len(order)
    THEN g
    ELSE LET n == order[idx]
             made == MakeSignalers(ListOf(Dependents(g.Top, n)), 1,
                                   [sm |-> EmptyMap, nextChan |-> g.nextChan])
             s == MakeSignals(g, g.Top[n], 1, EmptyMap)
         IN  SignalsAndSignalersLoop(
                 UpdateSignaling([g EXCEPT !.nextChan = made.nextChan], n, made.sm, s),
                 order, idx + 1)

\* Graph.SignalsAndSignalers, the keys of Top being ranged over in the given
\* order.
SignalsAndSignalersOp(g, order) == SignalsAndSignalersLoop(g, order, 1)

SignalsAndSignalers ==
    /\ nextChan + Cardinality(StoredEdges(Top)) <= MaxPassChan
    /\ \E order \in RangeOrders(DOMAIN Top) :
         Install(SignalsAndSignalersOp(Current, order))
    /\ result' = "none"
    /\ lastOp' = Call("SignalsAndSignalers", 0, NoNode)
    /\ UNCHANGED svars

PassNext ==
    \/ \E a, b \in CdNodes : StoreEdge(a, b)
    \/ SignalsAndSignalers

PassSpec == CdInit /\ [][PassNext]_vars

\* C20: after SignalsAndSignalers, for every stored edge (dependent D,
\* dependency P) the entry of D's inbound map under P is a channel, not nil,
\* and is the entry of P's outbound map under D, whatever the order of the
\* pass and however often it has run.
C20_WiringConsistent ==
    lastOp.op = "SignalsAndSignalers" =>
      \A e \in StoredEdges(Top) :
        e[1] # e[2] =>
          /\ e[2].id \in DOMAIN Inbound(e[1])
          /\ e[1].id \in DOMAIN Outbound(e[2])
          /\ Inbound(e[1])[e[2].id] # NilChan
          /\ Inbound(e[1])[e[2].id] = Outbound(e[2])[e[1].id]

(* ------------------------ lifetime of the nodes ----------------------- *)

\* Every node that is not virtual stays in the graph in this step.
NonVirtualStay == \A n \in DOMAIN Top : ~n.virtual => n \in DOMAIN Top'

\* AddVUI of a node that is not virtual fails in this step, the graph unchanged.
AddVUIRefused ==
    (lastOp'.op = "AddVUI" /\ ~lastOp'.node.virtual)
      => (result' = "NotVirtual" /\ UNCHANGED gvars)

\* C21: a node that is not virtual, once inserted, stays in the graph;
\* RemoveVUI of a node that is not virtual fails with NotVirtual and AddVUI
\* of a node that is not virtual fails, both leaving the graph as it was.
C21_NonVirtualRefusedAsNotVirtual ==
    [][/\ NonVirtualStay
       /\ AddVUIRefused
       /\ (lastOp'.op = "RemoveVUI" /\ ~lastOp'.node.virtual)
            => (result' = "NotVirtual" /\ UNCHANGED gvars)]_vars

\* C21, amended: a node that is not virtual, once inserted, stays in the
\* graph; RemoveVUI of a node that is not virtual fails, with NotVirtual for
\* a UI and with "Not a UI node" for any other node, and AddVUI of a node
\* that is not virtual fails, both leaving the graph as it was.
C21_NonVirtualRefused ==
    [][/\ NonVirtualStay
       /\ AddVUIRefused
       /\ (lastOp'.op = "RemoveVUI" /\ ~lastOp'.node.virtual)
            => /\ result' = IF lastOp'.node.ui THEN "NotVirtual" ELSE "NotUI"
               /\ UNCHANGED gvars]_vars

\* RemoveVUI has been refused for a temporal node of the graph, which is
\* still in the graph next to a virtual node.
C21_Witness ==
    /\ lastOp.op = "RemoveVUI"
    /\ ~lastOp.node.ui /\ ~lastOp.node.virtual
    /\ lastOp.node \in DOMAIN Top
    /\ result = "NotUI"
    /\ \E v \in DOMAIN Top : v.virtual

(* ---------------------------- identifiers ----------------------------- *)

MaxDraws == 3

\* The values rand.Int() yields here: the identifiers in use and one more.
RandInts == 1..(MaxId + 1)

RECURSIVE GenID(_, _, _)
RECURSIVE GenIDLoop(_, _, _, _, _)

\* A variant of the loop that takes a new draw on a collision, unchecked.
GenIDLoopRedraw(orders, draws, order, idx, cur) ==
    IF ~cur.done \/ idx > Len(order)
    THEN cur
    ELSE IF order[idx].id = cur.id
         THEN IF cur.k >= Len(draws)
              THEN [cur EXCEPT !.done = FALSE]
              ELSE GenIDLoop(orders, draws, order, idx + 1,
                             [cur EXCEPT !.id = draws[cur.k + 1], !.k = @ + 1])
         ELSE GenIDLoop(orders, draws, order, idx + 1, cur)

\* The loop of GenID over order[idx..], id being cur.id.  cur also counts the
\* draws taken (k) and the calls of GenID begun (inv); done is FALSE when a
\* call below is still waiting for a draw.
GenIDLoop(orders, draws, order, idx, cur) ==
    IF ~cur.done \/ idx > Len(order)
    THEN cur
    ELSE IF order[idx].id = cur.id
         THEN GenIDLoop(orders, draws, order, idx + 1,
                        GenID(orders, draws, [k |-> cur.k, inv |-> cur.inv]))
         ELSE GenIDLoop(orders, draws, order, idx + 1, cur)

\* Graph.GenID: draws are the values of rand.Int() in the order they are
\* taken, orders[i] the order in which the i-th call ranges over Top.
GenID(orders, draws, st) ==
    IF st.k >= Len(draws)
    THEN [id |-> 0, k |-> st.k, inv |-> st.inv, done |-> FALSE]
    ELSE GenIDLoop(orders, draws, orders[st.inv + 1], 1,
                   [id |-> draws[st.k + 1], k |-> st.k + 1, inv |-> st.inv + 1,
                    done |-> TRUE])

\* A call of GenID on the current graph; the draws are kept with the call.
GenIDCall ==
    /\ \E draws \in [1..MaxDraws -> RandInts] :
       \E orders \in [1..MaxDraws -> RangeOrders(DOMAIN Top)] :
         LET r == GenID(orders, draws, [k |-> 0, inv |-> 0]) IN
           /\ result' = IF r.done THEN "returned" ELSE "running"
           /\ lastOp' = [op |-> "GenID", id |-> r.id, node |-> NoNode,
                         draws |-> SubSeq(draws, 1, r.k)]
    /\ UNCHANGED <<gvars, svars>>

GenNext ==
    \/ \E node \in Nodes : AddRealNode(node, TRUE)
    \/ GenIDCall

GenSpec == Init /\ [][GenNext]_vars

\* The identifiers of the nodes in the graph.
LiveIds == {n.id : n \in DOMAIN Top}

\* C22: the identifier GenID returns is the identifier of no node in the
\* graph, whatever the draws and however many of them collided.
C22_GenIDUnused ==
    (lastOp.op = "GenID" /\ result = "returned") => lastOp.id \notin LiveIds

\* GenID has returned after two draws that collided with identifiers of
\* nodes in the graph.
C22_Witness ==
    /\ lastOp.op = "GenID"
    /\ result = "returned"
    /\ Len(lastOp.draws) = 3
    /\ lastOp.draws[1] \in LiveIds
    /\ lastOp.draws[2] \in LiveIds

====
